---- MODULE Spec2Model ----
(***************************************************************************)
(* Budget-constrained bidding controllers of src/src/Bidder.py:            *)
(* TruthfulBudgetRistricctedBidder, IMPCBudgetBidder, BidCapBidder,        *)
(* SPBBidder and MPCBidder (the PID-on-ROI controller), together with the  *)
(* pure curve solver impc and its helpers.                                 *)
(*                                                                         *)
(* Python floats are modelled as exact rationals [n, d] in lowest terms    *)
(* with d > 0: every arithmetic operation of the source is carried out     *)
(* exactly, so rounding error is outside the model, while divisions,       *)
(* comparisons against 1e-6 and clamps are computed as the code does.      *)
(***************************************************************************)
EXTENDS Integers, Sequences, FiniteSets, TLC

\* ------------------------------------------------------------------------
\* Exact rational arithmetic standing for Python float arithmetic
\* ------------------------------------------------------------------------
Abs(x) == IF x < 0 THEN -x ELSE x

RECURSIVE Gcd(_, _)
Gcd(a, b) == IF b = 0 THEN a ELSE Gcd(b, a % b)

Rat(n, d) ==
    LET g == Gcd(Abs(n), Abs(d))
        s == IF d < 0 THEN -1 ELSE 1
    IN  [n |-> (s * n) \div g, d |-> (s * d) \div g]

R(k) == [n |-> k, d |-> 1]

RAdd(a, b) == Rat(a.n * b.d + b.n * a.d, a.d * b.d)
RSub(a, b) == Rat(a.n * b.d - b.n * a.d, a.d * b.d)
RMul(a, b) == Rat(a.n * b.n, a.d * b.d)
RDiv(a, b) == Rat(a.n * b.d, a.d * b.n)
RLt(a, b)  == a.n * b.d < b.n * a.d
RLe(a, b)  == a.n * b.d <= b.n * a.d
RGe(a, b)  == RLe(b, a)
RGt(a, b)  == RLt(b, a)
RAbs(a)    == [n |-> Abs(a.n), d |-> a.d]
RMin(a, b) == IF RLe(a, b) THEN a ELSE b
RMax(a, b) == IF RGe(a, b) THEN a ELSE b

\* the smallest integer >= y / m, for m > 0
CeilDiv(y, m) == -((-y) \div m)

\* a < 1e-6 for the literal 1e-6 of the source (distance / thresholds):
\* a.n * 10^6 < a.d, computed as a.n < ceil(a.d / 10^6)
BelowEps(a) == a.n < CeilDiv(a.d, 1000000)

\* ------------------------------------------------------------------------
\* Pure functions (lines 66-122).  A sample is <<bid, spend>>.
\* ------------------------------------------------------------------------

\* Python's list comparison of [bid, spend] pairs, as used by sorted()
SampleLe(s, t) == RLt(s[1], t[1]) \/ (s[1] = t[1] /\ RLe(s[2], t[2]))

RECURSIVE Insert(_, _)
Insert(s, sorted) ==
    IF sorted = <<>> THEN <<s>>
    ELSE IF SampleLe(s, Head(sorted)) THEN <<s>> \o sorted
         ELSE <<Head(sorted)>> \o Insert(s, Tail(sorted))

RECURSIVE Sorted(_)
Sorted(samples) ==
    IF samples = <<>> THEN <<>>
    ELSE Insert(Head(samples), Sorted(Tail(samples)))

RECURSIVE RSum(_, _)
RSum(seq, k) ==
    IF seq = <<>> THEN R(0) ELSE RAdd(Head(seq)[k], RSum(Tail(seq), k))

\* list(map(np.mean, zip(*current)))
MeanSample(current) ==
    << RDiv(RSum(current, 1), R(Len(current))),
       RDiv(RSum(current, 2), R(Len(current))) >>

\* s[0] < current[0][0] * (1.0 + distance) with distance = 1e-6, evaluated
\* exactly in the equivalent form (s[0] - current[0][0]) * 10^6 < current[0][0]
NearFirst(s, first) ==
    LET diff == RSub(s[1], first[1]) IN
    diff.n * first[1].d < CeilDiv(first[1].n * diff.d, 1000000)

RECURSIVE AggLoop(_, _, _, _)
AggLoop(samples, i, result, current) ==
    IF i > Len(samples)
    THEN IF Len(current) > 0 THEN Append(result, MeanSample(current))
         ELSE result
    ELSE LET s == samples[i] IN
         IF Len(current) = 0 \/ NearFirst(s, current[1])
         THEN AggLoop(samples, i + 1, result, Append(current, s))
         ELSE AggLoop(samples, i + 1, Append(result, MeanSample(current)), <<>>)

\* the same loop without the trailing flush of lines 76-77
RECURSIVE AggLoopNoFlush(_, _, _, _)
AggLoopNoFlush(samples, i, result, current) ==
    IF i > Len(samples)
    THEN result
    ELSE LET s == samples[i] IN
         IF Len(current) = 0 \/ NearFirst(s, current[1])
         THEN AggLoopNoFlush(samples, i + 1, result, Append(current, s))
         ELSE AggLoopNoFlush(samples, i + 1,
                             Append(result, MeanSample(current)), <<>>)

aggregate_near_sample_noflush(samples) == AggLoopNoFlush(samples, 1, <<>>, <<>>)

aggregate_near_sample(samples) == AggLoop(samples, 1, <<>>, <<>>)

\* the bisection of lines 85-92; l and r are the 0-based Python indices
RECURSIVE Bisect(_, _, _, _)
Bisect(result, s, l, r) ==
    IF l < r
    THEN LET mid == (l + r) \div 2 IN
         IF RGe(s[2], result[mid + 1][2])
         THEN Bisect(result, s, mid + 1, r)
         ELSE Bisect(result, s, l, mid)
    ELSE l

RECURSIVE IncLoop(_, _, _)
IncLoop(samples, i, result) ==
    IF i > Len(samples) THEN result
    ELSE LET s == samples[i]
             l == Bisect(result, s, 0, Len(result))
         IN  IncLoop(samples, i + 1,
                     IF l = Len(result) THEN Append(result, s)
                     ELSE [result EXCEPT ![l + 1] = s])

increasing_subsequence(samples) == IncLoop(samples, 1, <<>>)

liner_solve(x1, y1, x2, y2, x) ==
    IF BelowEps(RAbs(RSub(x1, x2)))
    THEN RDiv(RAdd(y1, y2), R(2))
    ELSE RAdd(y1, RDiv(RMul(RSub(y2, y1), RSub(x, x1)), RSub(x2, x1)))

\* the while loop of lines 115-118; i is the 0-based Python index
RECURSIVE Walk(_, _, _, _, _)
Walk(samples, target, i, bid, spend) ==
    IF i < Len(samples) /\ RLt(samples[i + 1][2], target)
    THEN Walk(samples, target, i + 1, samples[i + 1][1], samples[i + 1][2])
    ELSE [i |-> i, bid |-> bid, spend |-> spend]

\* impc, returning the value together with the return statement taken
impc_full(bid2spend, target) ==
    LET samples == increasing_subsequence(
                       aggregate_near_sample(Sorted(bid2spend)))
    IN  IF Len(samples) = 0
        THEN [ret |-> R(1), branch |-> "default"]
        ELSE LET w == Walk(samples, target, 0, R(0), R(0)) IN
             IF w.i < Len(samples)
             THEN [ret |-> liner_solve(w.spend, w.bid, samples[w.i + 1][2],
                                       samples[w.i + 1][1], target),
                   branch |-> "interpolate"]
             ELSE [ret |-> liner_solve(R(0), R(0), samples[Len(samples)][2],
                                       samples[Len(samples)][1], target),
                   branch |-> "extrapolate"]

impc(bid2spend, target) == impc_full(bid2spend, target).ret


\* Python's lst[-m:]  (m = 0 gives lst[0:], the whole list)
LastSlice(lst, m) ==
    IF m > 0
    THEN IF Len(lst) <= m THEN lst ELSE SubSeq(lst, Len(lst) - m + 1, Len(lst))
    ELSE IF m = 0 THEN lst
    ELSE IF Len(lst) <= -m THEN <<>> ELSE SubSeq(lst, 1 - m, Len(lst))

\* ------------------------------------------------------------------------
\* Configuration of the controllers under analysis
\* ------------------------------------------------------------------------
MaxCalls  == 4      \* charge/update/reset calls explored per controller
MaxMemory == 2      \* memory is drawn from 0 .. MaxMemory
MaxHist   == 3      \* longest history handed to the solver on its own

rounds_per_step == 2
rounds_per_iter == 4
spb_memory      == 2
bid_step        == Rat(1, 2)
explore_bid_max == Rat(3, 2)
kp              == Rat(1, 2)
ki              == Rat(1, 4)
kd              == Rat(1, 4)

Kinds    == {"Truthful", "IMPC", "BidCap", "SPB", "PID"}
IMPCLike == {"IMPC", "BidCap", "SPB"}
Budgets  == {R(3)}
Memories == 0 .. MaxMemory
Prices   == {R(0), R(1), R(2)}
\* cur_round is read only as cur_round % rounds_per_step: one round index
\* of each residue
Rounds   == 0 .. rounds_per_step - 1
Values   == {R(0), R(4)}
CTRs     == {Rat(1, 2)}
\* <<bid_min, bid_max>> configurations of the PID controller
PIDRanges == {<<Rat(1, 2), R(2)>>, <<R(2), R(3)>>}
\* iteration totals handed to update by the harness
SpendTotals == {R(2)}
ValueTotals == {R(0), R(3)}
EstTotals   == {R(2)}
\* what the PID controller is charged
PIDPrices   == {R(0), R(1)}
\* what scipy's curve_fit can hand back through fit_model: failure, or some
\* (a, b) inside the bounds; opt_spend is 8, 1 and -2 for the three fits
FitOutcomes ==
    { [ok |-> FALSE, a |-> R(1), b |-> R(1)],
      [ok |-> TRUE, a |-> Rat(1, 4), b |-> R(0)],
      [ok |-> TRUE, a |-> R(1), b |-> Rat(1, 2)],
      [ok |-> TRUE, a |-> R(1), b |-> R(2)] }

VARIABLES
    kind,                    \* the class of the controller
    budget, memory, bid_min, bid_max,
    spending, step_spending, roi_bid, bid2spend_history,
    optimal_budget, spend_history, value_history,
    prediction_diff, estimated_value, estimated_value_history,
    error_p, last_error_p, error_i, error_d,
    last,                    \* the most recent call and what it returned
    nCalls,                  \* charge/update/reset calls made so far
    s_history, s_target, s_out,   \* the solver called on its own
    s_stages,                \* the solver's two filtering steps on their own
    round,                   \* the harness's round index within the iteration
    step_paid                \* prices the harness charged in the current step

ctl  == <<kind, budget, memory, bid_min, bid_max,
          spending, step_spending, roi_bid, bid2spend_history,
          optimal_budget, spend_history, value_history,
          prediction_diff, estimated_value, estimated_value_history,
          error_p, last_error_p, error_i, error_d, last, nCalls>>
svars == <<s_history, s_target, s_out, s_stages>>
hvars == <<round, step_paid>>
vars  == <<ctl, svars, hvars>>

NoCall(op) ==
    [op |-> op, boundary |-> FALSE, price |-> R(0), value |-> R(0),
     ctr |-> R(0), ret |-> R(0), target |-> R(0), raw |-> R(0),
     branch |-> "none", has_contexts |-> FALSE, sum_values |-> R(0),
     est_total |-> R(0), fit |-> [ok |-> FALSE, a |-> R(1), b |-> R(1)]]

NoSolve == [ret |-> R(0), branch |-> "none"]

NoStages == [done |-> FALSE, denoised |-> <<>>, envelope |-> <<>>]

\* BudgetRistrictedBidder.__init__ / IMPCBudgetBidder.__init__
target_step_spending ==
    RDiv(RMul(budget, R(rounds_per_step)), R(rounds_per_iter))

\* ------------------------------------------------------------------------
\* Construction (the state after __init__)
\* ------------------------------------------------------------------------
SolverIdle ==
    /\ s_history = <<>>
    /\ s_target = R(0)
    /\ s_out = NoSolve
    /\ s_stages = NoStages

\* the harness clock is not running
HarnessIdle ==
    /\ round = 0
    /\ step_paid = R(0)

\* BudgetRistrictedBidder.__init__: the budget draw and spending = 0
BudgetInit ==
    /\ budget \in Budgets
    /\ spending = R(0)
    /\ last = NoCall("init")
    /\ nCalls = 0

\* fields a class does not have are held at a fixed value
NoIMPCFields ==
    /\ step_spending = R(0)
    /\ bid2spend_history = <<>>

NoSPBFields ==
    /\ optimal_budget = R(-1)
    /\ spend_history = <<>>

NoPIDFields ==
    /\ bid_min = R(0)
    /\ bid_max = R(0)
    /\ prediction_diff = R(1)
    /\ estimated_value = R(0)
    /\ estimated_value_history = <<>>
    /\ error_p = R(0)
    /\ last_error_p = R(0)
    /\ error_i = R(0)
    /\ error_d = R(0)

TruthfulInit ==
    /\ kind = "Truthful"
    /\ BudgetInit
    /\ memory = 0
    /\ roi_bid = R(1)
    /\ value_history = <<>>
    /\ NoIMPCFields /\ NoSPBFields /\ NoPIDFields

IMPCInit ==
    /\ kind \in {"IMPC", "BidCap"}
    /\ BudgetInit
    /\ memory \in Memories
    /\ bid2spend_history = <<>>
    /\ roi_bid = R(1)
    /\ step_spending = R(0)
    /\ value_history = <<>>
    /\ NoSPBFields /\ NoPIDFields

SPBInit ==
    /\ kind = "SPB"
    /\ BudgetInit
    /\ memory \in Memories
    /\ bid2spend_history = <<>>
    /\ roi_bid = R(1)
    /\ step_spending = R(0)
    /\ optimal_budget = R(-1)
    /\ spend_history = <<>>
    /\ value_history = <<>>
    /\ NoPIDFields

MPCInit ==
    /\ kind = "PID"
    /\ BudgetInit
    /\ memory \in Memories
    /\ roi_bid = R(1)
    /\ prediction_diff = R(1)
    /\ estimated_value = R(0)
    /\ value_history = <<>>
    /\ estimated_value_history = <<>>
    /\ \E range \in PIDRanges : bid_min = range[1] /\ bid_max = range[2]
    /\ error_p = R(0)
    /\ last_error_p = R(0)
    /\ error_i = R(0)
    /\ error_d = R(0)
    /\ NoIMPCFields /\ NoSPBFields

Init ==
    /\ SolverIdle
    /\ HarnessIdle
    /\ (TruthfulInit \/ IMPCInit \/ SPBInit \/ MPCInit)

\* ------------------------------------------------------------------------
\* bid
\* ------------------------------------------------------------------------
Truthful_bid(value, estimated_CTR) ==
    IF RLt(spending, budget) THEN RMul(value, estimated_CTR) ELSE R(0)

\* the same gate with <= in place of <
IMPC_bid_le(value, estimated_CTR) ==
    IF RLe(spending, budget)
    THEN RMul(RMul(value, estimated_CTR), roi_bid) ELSE R(0)

IMPC_bid(value, estimated_CTR) ==
    IF RLt(spending, budget)
    THEN RMul(RMul(value, estimated_CTR), roi_bid) ELSE R(0)

MPC_bid(value, estimated_CTR) ==
    IF RLt(spending, budget)
    THEN RMul(RMul(value, estimated_CTR), roi_bid) ELSE R(0)

BidCall(value, estimated_CTR, ret) ==
    [NoCall("bid") EXCEPT !.value = value, !.ctr = estimated_CTR, !.ret = ret]

state == <<kind, budget, memory, bid_min, bid_max,
           spending, step_spending, roi_bid, bid2spend_history,
           optimal_budget, spend_history, value_history,
           prediction_diff, estimated_value, estimated_value_history,
           error_p, last_error_p, error_i, error_d>>
config   == <<kind, budget, memory, bid_min, bid_max>>
pidstate == <<prediction_diff, estimated_value, estimated_value_history,
              error_p, last_error_p, error_i, error_d>>
spbstate == <<optimal_budget, spend_history>>

TruthfulBid ==
    /\ kind = "Truthful"
    /\ \E value \in Values, estimated_CTR \in CTRs :
          last' = BidCall(value, estimated_CTR,
                          Truthful_bid(value, estimated_CTR))
    /\ UNCHANGED <<state, nCalls, svars, hvars>>

IMPCBid ==
    /\ kind \in IMPCLike
    /\ \E value \in Values, estimated_CTR \in CTRs :
          last' = BidCall(value, estimated_CTR, IMPC_bid(value, estimated_CTR))
    /\ UNCHANGED <<state, nCalls, svars, hvars>>

MPCBid ==
    /\ kind = "PID"
    /\ \E value \in Values, estimated_CTR \in CTRs :
          last' = BidCall(value, estimated_CTR, MPC_bid(value, estimated_CTR))
    /\ UNCHANGED <<state, nCalls, svars, hvars>>

\* ------------------------------------------------------------------------
\* charge
\* ------------------------------------------------------------------------
ChargeCall(price, boundary, target, branch) ==
    [NoCall("charge") EXCEPT !.price = price, !.boundary = boundary,
                             !.target = target, !.branch = branch]

\* BudgetRistrictedBidder.charge, inherited by the truthful budget bidder
TruthfulCharge ==
    /\ kind = "Truthful"
    /\ nCalls < MaxCalls
    /\ \E price \in Prices, cur_round \in Rounds :
          /\ spending' = RAdd(spending, price)
          /\ last' = ChargeCall(price, FALSE, R(0), "none")
    /\ nCalls' = nCalls + 1
    /\ UNCHANGED <<config, step_spending, roi_bid, bid2spend_history,
                   spbstate, value_history, pidstate, svars, hvars>>

\* the solver's answer taken as it is, without the bid_step clamp
calc_roi_bid_noclamp(cur_step_spending, history, target) ==
    IF BelowEps(cur_step_spending)
    THEN RAdd(roi_bid, bid_step)
    ELSE impc(history, target)

\* the solver consulted at every step boundary, whatever the step spent
calc_roi_bid_nothreshold(cur_step_spending, history, target) ==
    LET bid == impc(history, target) IN
    RMin(RMax(bid, RSub(roi_bid, bid_step)), RAdd(roi_bid, bid_step))

\* calc_roi_bid, called with step_spending and the history as charge has
\* just updated them; roi_bid is still the value before the call
calc_roi_bid(cur_step_spending, history, target) ==
    IF BelowEps(cur_step_spending)
    THEN RAdd(roi_bid, bid_step)
    ELSE LET bid == impc(history, target) IN
         RMin(RMax(bid, RSub(roi_bid, bid_step)), RAdd(roi_bid, bid_step))

calc_branch(cur_step_spending) ==
    IF BelowEps(cur_step_spending) THEN "explore" ELSE "solve"

\* IMPCBudgetBidder.charge: the fields after the call
IMPC_charge(price, cur_round) ==
    LET sp == RAdd(spending, price)
        ss == RAdd(step_spending, price)
        h  == Append(bid2spend_history, <<roi_bid, ss>>)
    IN  IF cur_round % rounds_per_step = 0
        THEN [spending |-> sp,
              roi_bid |-> calc_roi_bid(ss, h, target_step_spending),
              step_spending |-> R(0),
              bid2spend_history |-> LastSlice(h, memory),
              call |-> ChargeCall(price, TRUE, target_step_spending,
                                  calc_branch(ss))]
        ELSE [spending |-> sp,
              roi_bid |-> roi_bid,
              step_spending |-> ss,
              bid2spend_history |-> bid2spend_history,
              call |-> ChargeCall(price, FALSE, R(0), "none")]

\* the parent's charge with no cap applied afterwards
BidCap_charge_nocap(price, cur_round) == IMPC_charge(price, cur_round)

\* BidCapBidder.charge
BidCap_charge(price, cur_round) ==
    LET c == IMPC_charge(price, cur_round) IN
    [c EXCEPT !.roi_bid = RMin(c.roi_bid, R(1))]

\* SPBBidder.charge with the explore_bid_max ceiling of line 221 left out
SPB_charge_nocap(price, cur_round) ==
    LET sp == RAdd(spending, price)
        ss == RAdd(step_spending, price)
        h  == Append(bid2spend_history, <<roi_bid, ss>>)
        trusted == RDiv(RMul(optimal_budget, R(rounds_per_step)),
                        R(rounds_per_iter))
        nominal == RDiv(RMul(budget, R(rounds_per_step)),
                        R(rounds_per_iter))
    IN  IF cur_round % rounds_per_step = 0
        THEN [spending |-> sp,
              roi_bid |-> IF RGt(optimal_budget, R(0))
                          THEN calc_roi_bid(ss, h, trusted)
                          ELSE calc_roi_bid(ss, h, nominal),
              step_spending |-> R(0),
              bid2spend_history |-> LastSlice(h, memory),
              call |-> ChargeCall(price, TRUE,
                                  IF RGt(optimal_budget, R(0))
                                  THEN trusted ELSE nominal,
                                  calc_branch(ss))]
        ELSE [spending |-> sp,
              roi_bid |-> roi_bid,
              step_spending |-> ss,
              bid2spend_history |-> bid2spend_history,
              call |-> ChargeCall(price, FALSE, R(0), "none")]

\* SPBBidder.charge
SPB_charge(price, cur_round) ==
    LET sp == RAdd(spending, price)
        ss == RAdd(step_spending, price)
        h  == Append(bid2spend_history, <<roi_bid, ss>>)
        trusted == RDiv(RMul(optimal_budget, R(rounds_per_step)),
                        R(rounds_per_iter))
        nominal == RDiv(RMul(budget, R(rounds_per_step)),
                        R(rounds_per_iter))
    IN  IF cur_round % rounds_per_step = 0
        THEN [spending |-> sp,
              roi_bid |-> IF RGt(optimal_budget, R(0))
                          THEN calc_roi_bid(ss, h, trusted)
                          ELSE RMin(calc_roi_bid(ss, h, nominal),
                                    explore_bid_max),
              step_spending |-> R(0),
              bid2spend_history |-> LastSlice(h, memory),
              call |-> ChargeCall(price, TRUE,
                                  IF RGt(optimal_budget, R(0))
                                  THEN trusted ELSE nominal,
                                  calc_branch(ss))]
        ELSE [spending |-> sp,
              roi_bid |-> roi_bid,
              step_spending |-> ss,
              bid2spend_history |-> bid2spend_history,
              call |-> ChargeCall(price, FALSE, R(0), "none")]

Charged(c) ==
    /\ spending' = c.spending
    /\ roi_bid' = c.roi_bid
    /\ step_spending' = c.step_spending
    /\ bid2spend_history' = c.bid2spend_history
    /\ last' = c.call

IMPCCharge ==
    /\ kind = "IMPC"
    /\ nCalls < MaxCalls
    /\ \E price \in Prices, cur_round \in Rounds :
          Charged(IMPC_charge(price, cur_round))
    /\ nCalls' = nCalls + 1
    /\ UNCHANGED <<config, spbstate, value_history, pidstate, svars, hvars>>

BidCapCharge ==
    /\ kind = "BidCap"
    /\ nCalls < MaxCalls
    /\ \E price \in Prices, cur_round \in Rounds :
          Charged(BidCap_charge(price, cur_round))
    /\ nCalls' = nCalls + 1
    /\ UNCHANGED <<config, spbstate, value_history, pidstate, svars, hvars>>

SPBCharge ==
    /\ kind = "SPB"
    /\ nCalls < MaxCalls
    /\ \E price \in Prices, cur_round \in Rounds :
          Charged(SPB_charge(price, cur_round))
    /\ nCalls' = nCalls + 1
    /\ UNCHANGED <<config, spbstate, value_history, pidstate, svars, hvars>>

\* MPCBidder.charge with error_i = error_p in place of error_i += error_p
MPC_charge_nosum(price, cur_round, estimated_CTR, value) ==
    LET paid == RGt(price, R(0))
        sp   == IF paid THEN RAdd(spending, price) ELSE spending
        ev   == IF paid THEN RAdd(estimated_value, RMul(estimated_CTR, value))
                ELSE estimated_value
        predicted == RMul(ev, prediction_diff)
        frame == [spending |-> sp, estimated_value |-> ev,
                  roi_bid |-> roi_bid, error_p |-> error_p,
                  error_i |-> error_i, error_d |-> error_d,
                  last_error_p |-> last_error_p,
                  call |-> ChargeCall(price, FALSE, R(0), "none")]
    IN  IF cur_round % rounds_per_step = 0
        THEN IF RGt(sp, R(0)) /\ RGt(predicted, R(0))
             THEN LET roi == RDiv(predicted, sp)
                      ep  == RSub(roi, R(1))
                      ei  == ep
                      ed  == RSub(ep, last_error_p)
                      control == RAdd(RAdd(RMul(kp, ep), RMul(ki, ei)),
                                      RMul(kd, ed))
                      bid == RAdd(roi_bid, control)
                      stepped == RMin(RMax(bid, RSub(roi_bid, bid_step)),
                                      RAdd(roi_bid, bid_step))
                  IN  [frame EXCEPT
                         !.error_p = ep, !.error_i = ei, !.error_d = ed,
                         !.last_error_p = ep,
                         !.roi_bid = RMin(RMax(stepped, bid_min), bid_max),
                         !.call = [ChargeCall(price, TRUE, R(0), "pid")
                                     EXCEPT !.raw = stepped]]
             ELSE [frame EXCEPT
                     !.roi_bid = RMin(bid_max, RAdd(roi_bid, bid_step)),
                     !.call = [ChargeCall(price, TRUE, R(0), "explore")
                                 EXCEPT !.raw = RAdd(roi_bid, bid_step)]]
        ELSE frame

\* MPCBidder.charge: the fields after the call
MPC_charge(price, cur_round, estimated_CTR, value) ==
    LET paid == RGt(price, R(0))
        sp   == IF paid THEN RAdd(spending, price) ELSE spending
        ev   == IF paid THEN RAdd(estimated_value, RMul(estimated_CTR, value))
                ELSE estimated_value
        predicted == RMul(ev, prediction_diff)
        frame == [spending |-> sp, estimated_value |-> ev,
                  roi_bid |-> roi_bid, error_p |-> error_p,
                  error_i |-> error_i, error_d |-> error_d,
                  last_error_p |-> last_error_p,
                  call |-> ChargeCall(price, FALSE, R(0), "none")]
    IN  IF cur_round % rounds_per_step = 0
        THEN IF RGt(sp, R(0)) /\ RGt(predicted, R(0))
             THEN LET roi == RDiv(predicted, sp)
                      ep  == RSub(roi, R(1))
                      ei  == RAdd(error_i, ep)
                      ed  == RSub(ep, last_error_p)
                      control == RAdd(RAdd(RMul(kp, ep), RMul(ki, ei)),
                                      RMul(kd, ed))
                      bid == RAdd(roi_bid, control)
                      stepped == RMin(RMax(bid, RSub(roi_bid, bid_step)),
                                      RAdd(roi_bid, bid_step))
                  IN  [frame EXCEPT
                         !.error_p = ep, !.error_i = ei, !.error_d = ed,
                         !.last_error_p = ep,
                         !.roi_bid = RMin(RMax(stepped, bid_min), bid_max),
                         !.call = [ChargeCall(price, TRUE, R(0), "pid")
                                     EXCEPT !.raw = stepped]]
             ELSE [frame EXCEPT
                     !.roi_bid = RMin(bid_max, RAdd(roi_bid, bid_step)),
                     !.call = [ChargeCall(price, TRUE, R(0), "explore")
                                 EXCEPT !.raw = RAdd(roi_bid, bid_step)]]
        ELSE frame

MPCCharge ==
    /\ kind = "PID"
    /\ nCalls < MaxCalls
    /\ \E price \in PIDPrices, cur_round \in Rounds,
          estimated_CTR \in CTRs, value \in Values :
          LET c == MPC_charge(price, cur_round, estimated_CTR, value) IN
          /\ spending' = c.spending
          /\ estimated_value' = c.estimated_value
          /\ roi_bid' = c.roi_bid
          /\ error_p' = c.error_p
          /\ error_i' = c.error_i
          /\ error_d' = c.error_d
          /\ last_error_p' = c.last_error_p
          /\ last' = c.call
    /\ nCalls' = nCalls + 1
    /\ UNCHANGED <<config, step_spending, bid2spend_history, spbstate,
                   value_history, prediction_diff, estimated_value_history,
                   svars, hvars>>

\* ------------------------------------------------------------------------
\* update (the iteration boundary) and reset
\* ------------------------------------------------------------------------
\* BudgetRistrictedBidder.update
TruthfulUpdate ==
    /\ kind = "Truthful"
    /\ nCalls < MaxCalls
    /\ spending' = R(0)
    /\ last' = NoCall("update")
    /\ nCalls' = nCalls + 1
    /\ UNCHANGED <<config, step_spending, roi_bid, bid2spend_history,
                   spbstate, value_history, pidstate, svars, hvars>>

\* an update that forgets to clear the iteration's spend
IMPC_update_keep == spending

\* IMPCBudgetBidder.update: the value it leaves in spending
IMPC_update == R(0)

IMPCUpdate ==
    /\ kind \in {"IMPC", "BidCap"}
    /\ nCalls < MaxCalls
    /\ spending' = IMPC_update
    /\ last' = NoCall("update")
    /\ nCalls' = nCalls + 1
    /\ UNCHANGED <<config, step_spending, roi_bid, bid2spend_history,
                   spbstate, value_history, pidstate, svars, hvars>>

opt_spend(a, b) == RDiv(RSub(R(2), RMul(R(2), b)), a)

\* a failed fit leaving the previous estimate in place
SPB_optimal_budget_stale(fit) ==
    IF fit.ok THEN RMin(opt_spend(fit.a, fit.b), budget) ELSE optimal_budget

\* the fitted optimum taken without the budget ceiling
SPB_optimal_budget_nomin(fit) ==
    IF fit.ok THEN opt_spend(fit.a, fit.b) ELSE R(-1)

\* lines 236-239, fit being (model_ready, a, b)
SPB_optimal_budget(fit) ==
    IF fit.ok THEN RMin(opt_spend(fit.a, fit.b), budget) ELSE R(-1)

NotReady == [ok |-> FALSE, a |-> R(1), b |-> R(1)]

\* SPBBidder.update; fit_model's outcome is whatever curve_fit produces
SPBUpdate ==
    /\ kind = "SPB"
    /\ nCalls < MaxCalls
    /\ \E has_contexts \in BOOLEAN, spent \in SpendTotals,
          sum_values \in {R(3)}, fitted \in FitOutcomes :
          LET sh == IF has_contexts
                    THEN LastSlice(Append(spend_history, spent), spb_memory)
                    ELSE spend_history
              vh == IF has_contexts
                    THEN LastSlice(Append(value_history, sum_values),
                                   spb_memory)
                    ELSE value_history
              fit == IF Len(sh) > 1 THEN fitted ELSE NotReady
          IN  /\ spend_history' = sh
              /\ value_history' = vh
              /\ optimal_budget' = SPB_optimal_budget(fit)
              /\ last' = [NoCall("update") EXCEPT
                            !.has_contexts = has_contexts, !.fit = fit]
    /\ spending' = R(0)
    /\ nCalls' = nCalls + 1
    /\ UNCHANGED <<config, step_spending, roi_bid, bid2spend_history,
                   pidstate, svars, hvars>>

RECURSIVE SumSeq(_)
SumSeq(seq) == IF seq = <<>> THEN R(0) ELSE RAdd(Head(seq), SumSeq(Tail(seq)))

\* MPCBidder.update also clearing the PID terms, as the commented-out reset
\* of lines 319-327 would
MPCUpdateClearsPID ==
    /\ kind = "PID"
    /\ nCalls < MaxCalls
    /\ spending' = R(0)
    /\ estimated_value' = R(0)
    /\ \E has_contexts \in BOOLEAN, est_total \in EstTotals,
          sum_values \in ValueTotals :
          IF has_contexts
          THEN LET eh == LastSlice(Append(estimated_value_history, est_total),
                                   memory)
                   vh == LastSlice(Append(value_history, sum_values), memory)
                   value == SumSeq(vh)
                   est   == SumSeq(eh)
               IN  /\ estimated_value_history' = eh
                   /\ value_history' = vh
                   /\ prediction_diff' =
                         IF RGt(value, R(1)) /\ RGt(est, R(1))
                         THEN RDiv(value, est) ELSE R(1)
                   /\ last' = [NoCall("update") EXCEPT
                                 !.has_contexts = TRUE,
                                 !.sum_values = sum_values,
                                 !.est_total = est_total]
          ELSE /\ UNCHANGED <<estimated_value_history, value_history,
                              prediction_diff>>
               /\ last' = NoCall("update")
    /\ nCalls' = nCalls + 1
    /\ error_p' = R(0)
    /\ last_error_p' = R(0)
    /\ error_i' = R(0)
    /\ error_d' = R(0)
    /\ UNCHANGED <<config, step_spending, roi_bid, bid2spend_history,
                   spbstate, svars, hvars>>

\* MPCBidder.update
MPCUpdate ==
    /\ kind = "PID"
    /\ nCalls < MaxCalls
    /\ spending' = R(0)
    /\ estimated_value' = R(0)
    /\ \E has_contexts \in BOOLEAN, est_total \in EstTotals,
          sum_values \in ValueTotals :
          IF has_contexts
          THEN LET eh == LastSlice(Append(estimated_value_history, est_total),
                                   memory)
                   vh == LastSlice(Append(value_history, sum_values), memory)
                   value == SumSeq(vh)
                   est   == SumSeq(eh)
               IN  /\ estimated_value_history' = eh
                   /\ value_history' = vh
                   /\ prediction_diff' =
                         IF RGt(value, R(1)) /\ RGt(est, R(1))
                         THEN RDiv(value, est) ELSE R(1)
                   /\ last' = [NoCall("update") EXCEPT
                                 !.has_contexts = TRUE,
                                 !.sum_values = sum_values,
                                 !.est_total = est_total]
          ELSE /\ UNCHANGED <<estimated_value_history, value_history,
                              prediction_diff>>
               /\ last' = NoCall("update")
    /\ nCalls' = nCalls + 1
    /\ UNCHANGED <<config, step_spending, roi_bid, bid2spend_history,
                   spbstate, error_p, last_error_p, error_i, error_d, svars, hvars>>

\* IMPCBudgetBidder.reset
IMPCReset ==
    /\ kind \in {"IMPC", "BidCap"}
    /\ nCalls < MaxCalls
    /\ bid2spend_history' = <<>>
    /\ spending' = R(0)
    /\ roi_bid' = R(1)
    /\ last' = NoCall("reset")
    /\ nCalls' = nCalls + 1
    /\ UNCHANGED <<config, step_spending, spbstate, value_history, pidstate,
                   svars, hvars>>

\* SPBBidder.reset
SPBReset ==
    /\ kind = "SPB"
    /\ nCalls < MaxCalls
    /\ bid2spend_history' = <<>>
    /\ spending' = R(0)
    /\ roi_bid' = R(1)
    /\ optimal_budget' = R(-1)
    /\ spend_history' = <<>>
    /\ value_history' = <<>>
    /\ last' = NoCall("reset")
    /\ nCalls' = nCalls + 1
    /\ UNCHANGED <<config, step_spending, pidstate, svars, hvars>>

Next ==
    \/ TruthfulBid \/ IMPCBid \/ MPCBid
    \/ TruthfulCharge \/ IMPCCharge \/ BidCapCharge \/ SPBCharge \/ MPCCharge
    \/ TruthfulUpdate \/ IMPCUpdate \/ SPBUpdate \/ MPCUpdate
    \/ IMPCReset \/ SPBReset

Spec == Init /\ [][Next]_vars

\* ------------------------------------------------------------------------
\* The solver called on its own: impc(bid2spend, target) on every history
\* of at most MaxHist samples over a small grid
\* ------------------------------------------------------------------------
SolveBids    == {R(1), R(2), R(3)}
SolveSpends  == {R(0), R(1), R(3)}
SolveTargets == {R(0), R(2), R(4)}

SolverInit ==
    /\ kind = "IMPC"
    /\ memory = 1
    /\ IMPCInit
    /\ HarnessIdle
    /\ s_history = <<>>
    /\ s_target \in SolveTargets
    /\ s_out = NoSolve
    /\ s_stages = NoStages

SolverAdd ==
    /\ s_out = NoSolve
    /\ ~s_stages.done
    /\ Len(s_history) < MaxHist
    /\ \E bid \in SolveBids, spend \in SolveSpends :
          s_history' = Append(s_history, <<bid, spend>>)
    /\ UNCHANGED <<ctl, hvars, s_target, s_out, s_stages>>

SolverRun ==
    /\ s_out = NoSolve
    /\ ~s_stages.done
    /\ s_out' = impc_full(s_history, s_target)
    /\ UNCHANGED <<ctl, hvars, s_history, s_target, s_stages>>

\* aggregate_near_sample and increasing_subsequence, each applied to the
\* bid-sorted history (line 107)
SolverStages ==
    /\ s_out = NoSolve
    /\ ~s_stages.done
    /\ s_stages' =
          [done |-> TRUE,
           denoised |-> aggregate_near_sample(Sorted(s_history)),
           envelope |-> increasing_subsequence(Sorted(s_history))]
    /\ UNCHANGED <<ctl, hvars, s_history, s_target, s_out>>

SolverNext == SolverAdd \/ SolverRun \/ SolverStages

SolverSpec == SolverInit /\ [][SolverNext]_vars

\* ------------------------------------------------------------------------
\* The per-round protocol of the simulation: rounds 0 .. rounds_per_iter - 1
\* of an iteration in order, the controller being charged in some rounds and
\* not in others, and one update at the end of the iteration.  step_paid is
\* the sum of the prices charged since the last step-boundary round.
\* ------------------------------------------------------------------------
HarnessInit ==
    /\ SolverIdle
    /\ HarnessIdle
    /\ kind = "IMPC"
    /\ IMPCInit

HarnessStepPaid(price) ==
    IF round % rounds_per_step = 0 THEN R(0) ELSE RAdd(step_paid, price)

\* a round in which the controller wins and is charged
HarnessCharge ==
    /\ round < rounds_per_iter
    /\ nCalls < MaxCalls
    /\ \E price \in Prices :
          /\ Charged(IMPC_charge(price, round))
          /\ step_paid' = HarnessStepPaid(price)
    /\ round' = round + 1
    /\ nCalls' = nCalls + 1
    /\ UNCHANGED <<config, spbstate, value_history, pidstate, svars>>

\* a round in which the controller is not charged
HarnessSkip ==
    /\ round < rounds_per_iter
    /\ round' = round + 1
    /\ step_paid' = HarnessStepPaid(R(0))
    /\ UNCHANGED <<ctl, svars>>

\* the end of the iteration: one update, and the round index starts again
HarnessUpdate ==
    /\ round = rounds_per_iter
    /\ nCalls < MaxCalls
    /\ spending' = IMPC_update
    /\ last' = NoCall("update")
    /\ nCalls' = nCalls + 1
    /\ round' = 0
    /\ UNCHANGED <<config, step_spending, roi_bid, bid2spend_history,
                   spbstate, value_history, pidstate, svars, step_paid>>

HarnessNext == HarnessCharge \/ HarnessSkip \/ HarnessUpdate

HarnessSpec == HarnessInit /\ [][HarnessNext]_vars

\* ------------------------------------------------------------------------
\* Properties
\* ------------------------------------------------------------------------
BidOf(value, estimated_CTR) ==
    IF kind = "Truthful" THEN RMul(value, estimated_CTR)
    ELSE RMul(RMul(value, estimated_CTR), roi_bid)

StepBoundary(call) == call.op = "charge" /\ call.boundary

\* C1: in every reachable state of every budget-constrained controller, a
\* bid call returns 0 when spending >= budget and value * estimated_CTR *
\* roi_bid (value * estimated_CTR for the truthful budget bidder) when
\* spending < budget.
C1_BidGate ==
    last.op = "bid" =>
        /\ RGe(spending, budget) => last.ret = R(0)
        /\ RLt(spending, budget) => last.ret = BidOf(last.value, last.ctr)

\* a bid of positive value refused with the spend exactly at the budget
C1_Witness ==
    /\ last.op = "bid"
    /\ kind = "BidCap"
    /\ spending = budget
    /\ RGt(last.value, R(0))
    /\ last.ret = R(0)

\* C2: a step-boundary charge moves roi_bid by at most bid_step: always for
\* IMPC and BidCap, for SPB while optimal_budget > 0, and for the PID
\* controller while the value handed to the [bid_min, bid_max] clamp lies
\* inside that range.
C2_Applies(call) ==
    \/ kind \in {"IMPC", "BidCap"}
    \/ kind = "SPB" /\ RGt(optimal_budget, R(0))
    \/ kind = "PID" /\ RLe(bid_min, call.raw) /\ RLe(call.raw, bid_max)

C2_StepBounded ==
    [][ (StepBoundary(last') /\ C2_Applies(last'))
            => RLe(RAbs(RSub(roi_bid', roi_bid)), bid_step) ]_vars

\* SPB in trusted mode has just taken the solve branch at a step boundary
C2_Witness ==
    /\ kind = "SPB"
    /\ RGt(optimal_budget, R(0))
    /\ StepBoundary(last)
    /\ last.branch = "solve"
    /\ roi_bid # R(1)

\* C3: after reset() an IMPC, BidCap or SPB controller is in the state of a
\* freshly constructed controller with the same budget: roi_bid = 1.0, all
\* histories empty, spending and step_spending zero.
C3_ResetIsFresh ==
    (last.op = "reset") =>
        /\ roi_bid = R(1)
        /\ bid2spend_history = <<>>
        /\ spending = R(0)
        /\ step_spending = R(0)
        /\ (kind = "SPB" => /\ optimal_budget = R(-1)
                            /\ spend_history = <<>>
                            /\ value_history = <<>>)

\* C4 as stated: spending never decreases across a charge, every update
\* leaves it 0 (so the next bid is not gated), and once spending >= budget
\* it stays so, every bid returning 0, until the next update.
C4_GatedUntilUpdate ==
    [][ /\ (last'.op = "charge" => RGe(spending', spending))
        /\ (last'.op = "update" => spending' = R(0) /\ RLt(spending', budget))
        /\ (RGe(spending, budget) /\ last'.op # "update"
               => /\ RGe(spending', budget)
                  /\ (last'.op = "bid" => last'.ret = R(0))) ]_vars

\* C4 as amended: the same, the gate holding until the next update or
\* reset (reset also sets spending to 0).
C4_GatedUntilUpdateOrReset ==
    [][ /\ (last'.op = "charge" => RGe(spending', spending))
        /\ (last'.op = "update" => spending' = R(0) /\ RLt(spending', budget))
        /\ (RGe(spending, budget) /\ last'.op \notin {"update", "reset"}
               => /\ RGe(spending', budget)
                  /\ (last'.op = "bid" => last'.ret = R(0))) ]_vars

\* a charge has taken the accumulated spend of the iteration past the budget
C4_Witness ==
    /\ last.op = "charge"
    /\ RGt(spending, budget)
    /\ RGt(spending, last.price)
    /\ RGt(last.price, R(0))

\* the min(m, Len(h)) most recent entries of h, in order
MostRecent(h, m) ==
    IF Len(h) <= m THEN h ELSE SubSeq(h, Len(h) - m + 1, Len(h))

\* C5: after every charge of IMPC, BidCap and SPB the bid-spend history
\* holds at most memory samples, and a step-boundary charge leaves exactly
\* the most recent memory samples of the history with the new sample
\* appended, in append order.
C5_HistoryBounded ==
    [][ (last'.op = "charge" /\ kind \in IMPCLike) =>
           /\ Len(bid2spend_history') <= memory
           /\ (last'.boundary =>
                 bid2spend_history' =
                    MostRecent(Append(bid2spend_history,
                                      <<roi_bid, RAdd(step_spending,
                                                      last'.price)>>),
                               memory)) ]_vars

\* C6: for SPB, optimal_budget when positive never exceeds budget, and the
\* target used by a step-boundary charge in trusted mode is at most
\* budget * rounds_per_step / rounds_per_iter.
C6_OptimalWithinBudget ==
    kind = "SPB" =>
        /\ RGt(optimal_budget, R(0)) => RLe(optimal_budget, budget)
        /\ (StepBoundary(last) /\ RGt(optimal_budget, R(0)))
              => RLe(last.target, target_step_spending)

\* a trusted-mode step boundary with the fitted optimum cut down to budget
C6_Witness ==
    /\ kind = "SPB"
    /\ StepBoundary(last)
    /\ optimal_budget = budget
    /\ last.target = target_step_spending

\* bids pairwise distinct and spends strictly increasing in bid order
StrictlyIncreasing(samples) ==
    \A i \in 1 .. Len(samples) - 1 :
        /\ RLt(samples[i][1], samples[i + 1][1])
        /\ RLt(samples[i][2], samples[i + 1][2])

\* C7: for a history with pairwise distinct bids and strictly increasing
\* spends (b1,s1),...,(bn,sn) and s_i < target < s_{i+1}, solve returns
\* b_i + (b_{i+1} - b_i) * (target - s_i) / (s_{i+1} - s_i).
C7_InterpolatesInBracket ==
    LET pts == Sorted(s_history) IN
    (s_out.branch # "none" /\ StrictlyIncreasing(pts)) =>
        \A i \in 1 .. Len(pts) - 1 :
            (RLt(pts[i][2], s_target) /\ RLt(s_target, pts[i + 1][2])) =>
                s_out.ret =
                    RAdd(pts[i][1],
                         RDiv(RMul(RSub(pts[i + 1][1], pts[i][1]),
                                   RSub(s_target, pts[i][2])),
                              RSub(pts[i + 1][2], pts[i][2])))

\* C8: solve([], target) returns 1.0 for every target, and for a non-empty
\* history the solver never returns through the neutral default: it
\* reaches the interpolation or the extrapolation.
C8_DefaultOnlyWhenEmpty ==
    s_out.branch # "none" =>
        /\ s_history = <<>> => s_out.ret = R(1) /\ s_out.branch = "default"
        /\ s_history # <<>> => s_out.branch \in {"interpolate", "extrapolate"}

\* the solver has run on the empty history with a non-zero target
C8_Witness ==
    /\ s_history = <<>>
    /\ s_target # R(0)
    /\ s_out.branch = "default"
    /\ s_out.ret = R(1)

\* C9: in every reachable state of BidCap roi_bid <= 1.0, so every bid it
\* returns is at most value * estimated_CTR.
C9_BidCapAtMostOne ==
    kind = "BidCap" =>
        /\ RLe(roi_bid, R(1))
        /\ (last.op = "bid" => RLe(last.ret, RMul(last.value, last.ctr)))

\* the exploration branch ran at a step boundary and the cap held roi_bid
C9_Witness ==
    /\ kind = "BidCap"
    /\ StepBoundary(last)
    /\ last.branch = "explore"
    /\ roi_bid = R(1)

\* C10: for the PID controller with bid_min <= bid_max, after every
\* step-boundary charge roi_bid lies in [bid_min, bid_max], in the PID
\* branch and in the exploration branch.
C10_PIDWithinRange ==
    (kind = "PID" /\ RLe(bid_min, bid_max) /\ StepBoundary(last)) =>
        /\ RLe(bid_min, roi_bid)
        /\ RLe(roi_bid, bid_max)

\* the step spend and the history a step-boundary charge works with: the
\* price just charged added, the sample of the closing step appended
StepSpend(call) == RAdd(step_spending, call.price)

Recorded(call) == Append(bid2spend_history, <<roi_bid, StepSpend(call)>>)

PerStep(amount) ==
    RDiv(RMul(amount, R(rounds_per_step)), R(rounds_per_iter))

\* C11: a step-boundary charge of SPB with optimal_budget <= 0 solves for
\* budget * rounds_per_step / rounds_per_iter and leaves roi_bid at most
\* explore_bid_max; with optimal_budget > 0 it solves for optimal_budget *
\* rounds_per_step / rounds_per_iter and roi_bid is the bid_step-clamped
\* answer with no explore_bid_max ceiling.
C11_TargetAndCap ==
    [][ (kind = "SPB" /\ StepBoundary(last')) =>
           IF RGt(optimal_budget, R(0))
           THEN /\ last'.target = PerStep(optimal_budget)
                /\ roi_bid' = calc_roi_bid(StepSpend(last'), Recorded(last'),
                                           PerStep(optimal_budget))
           ELSE /\ last'.target = PerStep(budget)
                /\ RLe(roi_bid', explore_bid_max) ]_vars

\* a trusted-mode step boundary has taken roi_bid above explore_bid_max
C11_Witness ==
    /\ kind = "SPB"
    /\ StepBoundary(last)
    /\ RGt(optimal_budget, R(0))
    /\ RGt(roi_bid, explore_bid_max)

\* C12: after every update of SPB, optimal_budget is -1 when the spend/value
\* history has fewer than 2 entries or the fit failed (the failure is
\* absorbed: update completes), and min(opt_spend(a, b), budget) when the
\* fit succeeded; spending is 0, roi_bid and the bid-spend history are as
\* before.
C12_UpdateOutcome ==
    [][ (kind = "SPB" /\ last'.op = "update") =>
           /\ Len(spend_history') = Len(value_history')
           /\ (Len(spend_history') < 2 \/ ~last'.fit.ok)
                 => optimal_budget' = R(-1)
           /\ (Len(spend_history') >= 2 /\ last'.fit.ok)
                 => optimal_budget' =
                       RMin(opt_spend(last'.fit.a, last'.fit.b), budget)
           /\ spending' = R(0)
           /\ roi_bid' = roi_bid
           /\ bid2spend_history' = bid2spend_history ]_vars

\* a fit has failed on a history of 2 iterations, a bid-spend sample
\* being on record
C12_Witness ==
    /\ kind = "SPB"
    /\ last.op = "update"
    /\ Len(spend_history) = 2
    /\ ~last.fit.ok
    /\ optimal_budget = R(-1)
    /\ bid2spend_history # <<>>

PIDBoundary(call) == kind = "PID" /\ StepBoundary(call) /\ call.branch = "pid"

\* C13: at every step-boundary charge of the PID controller that takes
\* the PID branch, error_i grows by exactly the new error_p, so under a
\* constant positive error_p (roi > 1) it strictly increases at each step
\* boundary, whether or not roi_bid has reached bid_max; an update in
\* between leaves error_i as it is.
C13_IntegralGrows ==
    [][ /\ PIDBoundary(last') =>
             /\ error_i' = RAdd(error_i, error_p')
             /\ (RGt(error_p', R(0)) => RGt(error_i', error_i))
        /\ (kind = "PID" /\ last'.op = "update") => error_i' = error_i ]_vars

\* two PID-branch boundaries in a row with the same positive error_p
C13_Witness ==
    /\ PIDBoundary(last)
    /\ RGt(error_p, R(0))
    /\ error_d = R(0)
    /\ error_i = RMul(R(2), error_p)

pidterms == <<error_p, error_i, error_d, last_error_p>>

\* C14: an update of the PID controller sets spending and estimated_value
\* to 0 and leaves error_p, error_i, error_d, last_error_p and roi_bid as
\* they are; only a step-boundary charge changes any of these five.
C14_UpdateKeepsPID ==
    [][ kind = "PID" =>
           /\ last'.op = "update" =>
                 /\ spending' = R(0)
                 /\ estimated_value' = R(0)
                 /\ UNCHANGED <<pidterms, roi_bid>>
           /\ ~StepBoundary(last') => UNCHANGED <<pidterms, roi_bid>> ]_vars

\* an update has run with PID terms and roi_bid away from their initial
\* values and with spend to clear
C14_Witness ==
    /\ kind = "PID"
    /\ last.op = "update"
    /\ error_i # R(0)
    /\ error_p # R(0)
    /\ roi_bid # R(1)
    /\ nCalls >= 3

\* C15: after every update of the PID controller called with iteration
\* data, prediction_diff is sum(true values) / sum(estimated values) over the
\* at most memory most recent iterations when both sums exceed 1 and 1
\* otherwise; and prediction_diff is positive after every step.
C15_PredictionDiff ==
    [][ kind = "PID" =>
          /\ (last'.op = "update" /\ last'.has_contexts) =>
                LET vh == MostRecent(Append(value_history, last'.sum_values),
                                     memory)
                    eh == MostRecent(Append(estimated_value_history,
                                            last'.est_total), memory)
                IN  prediction_diff' =
                       IF RGt(SumSeq(vh), R(1)) /\ RGt(SumSeq(eh), R(1))
                       THEN RDiv(SumSeq(vh), SumSeq(eh)) ELSE R(1)
          /\ RGt(prediction_diff', R(0)) ]_vars

\* the runs of a bid-sorted sample list: a sample joins the current run when
\* its bid is near the run's first bid and starts the next run otherwise
RECURSIVE RunsFrom(_, _, _, _)
RunsFrom(samples, i, runs, current) ==
    IF i > Len(samples)
    THEN IF current = <<>> THEN runs ELSE Append(runs, current)
    ELSE LET s == samples[i] IN
         IF current = <<>> \/ NearFirst(s, current[1])
         THEN RunsFrom(samples, i + 1, runs, Append(current, s))
         ELSE RunsFrom(samples, i + 1, Append(runs, current), <<s>>)

RunMeans(samples) ==
    LET runs == RunsFrom(samples, 1, <<>>, <<>>) IN
    [k \in 1 .. Len(runs) |-> MeanSample(runs[k])]

WellSeparated(samples) ==
    \A i, j \in 1 .. Len(samples) :
        i < j => ~NearFirst(samples[j], samples[i])

\* C16: the denoise step returns one sample per run of the bid-sorted
\* samples, the run's coordinate-wise mean, every input sample being in
\* exactly one run; samples with pairwise well-separated bids all survive
\* unchanged.
C16_DenoiseKeepsRuns ==
    s_stages.done =>
        /\ s_stages.denoised = RunMeans(Sorted(s_history))
        /\ WellSeparated(Sorted(s_history)) =>
              s_stages.denoised = Sorted(s_history)

SpendNonDecreasing(samples) ==
    \A i, j \in 1 .. Len(samples) :
        i < j => RLe(samples[i][2], samples[j][2])

BidNonDecreasing(samples) ==
    \A i, j \in 1 .. Len(samples) :
        i < j => RLe(samples[i][1], samples[j][1])

\* C17: for a bid-ascending input, the sequence returned by the envelope
\* step, read in increasing-bid order, has non-decreasing spend: the
\* returned sequence is ordered by bid and by spend simultaneously.
C17_EnvelopeMonotone ==
    s_stages.done =>
        /\ SpendNonDecreasing(Sorted(s_stages.envelope))
        /\ BidNonDecreasing(s_stages.envelope)
        /\ SpendNonDecreasing(s_stages.envelope)

\* C18: under the per-round protocol, in which the controller is charged in
\* zero or more rounds of a step, every sample appended to the history at a
\* step boundary holds only the prices charged since the previous boundary
\* round, the rounds_per_step rounds of the step that ends there.
C18_SampleIsStepTotal ==
    [][ (nCalls' = nCalls + 1 /\ StepBoundary(last')) =>
           bid2spend_history'[Len(bid2spend_history')][2] =
              RAdd(step_paid, last'.price) ]_vars

Clamp(x, lo, hi) == RMin(RMax(x, lo), hi)

\* C19: at a step-boundary charge of IMPC the sample (old roi_bid,
\* step_spending including the price just charged) is appended and
\* step_spending is reset to 0; when that step_spending is below 1e-6,
\* roi_bid increases by exactly bid_step without the solver, and otherwise
\* roi_bid becomes the solver's answer for the history and the target step
\* spend, clamped to [roi_bid - bid_step, roi_bid + bid_step].
C19_ExploreOrSolve ==
    [][ (kind = "IMPC" /\ StepBoundary(last')) =>
           /\ step_spending' = R(0)
           /\ bid2spend_history' # <<>>
           /\ bid2spend_history'[Len(bid2spend_history')] =
                 <<roi_bid, StepSpend(last')>>
           /\ IF BelowEps(StepSpend(last'))
              THEN /\ roi_bid' = RAdd(roi_bid, bid_step)
                   /\ last'.branch = "explore"
              ELSE /\ roi_bid' = Clamp(impc(Recorded(last'),
                                            PerStep(budget)),
                                       RSub(roi_bid, bid_step),
                                       RAdd(roi_bid, bid_step))
                   /\ last'.branch = "solve" ]_vars

\* a step has closed with nothing spent while an earlier step with spend is
\* on record
C19_Witness ==
    /\ kind = "IMPC"
    /\ StepBoundary(last)
    /\ last.branch = "explore"
    /\ Len(bid2spend_history) >= 2
    /\ bid2spend_history[Len(bid2spend_history)][2] = R(0)
    /\ RGt(bid2spend_history[1][2], R(0))

\* the bid a step-boundary charge takes when the solver is given the history
\* history
SolvedBid(history, call) ==
    LET solved == Clamp(impc(history, call.target),
                        RSub(roi_bid, bid_step), RAdd(roi_bid, bid_step))
    IN  IF kind = "BidCap" THEN RMin(solved, R(1))
        ELSE IF kind = "SPB" /\ ~RGt(optimal_budget, R(0))
             THEN RMin(solved, explore_bid_max)
        ELSE solved

\* C20: at a step-boundary charge of IMPC, BidCap and SPB that consults the
\* solver, the solver is given the history with the new sample appended and
\* not yet truncated: at most memory + 1 samples, the last of them the
\* sample just recorded.
C20_SolverSeesMemoryPlusOne ==
    [][ (kind \in IMPCLike /\ StepBoundary(last')
           /\ last'.branch = "solve") =>
           /\ roi_bid' = SolvedBid(Recorded(last'), last')
           /\ Len(Recorded(last')) <= memory + 1 ]_vars

====
